---- MODULE Spec2Model ----
(***************************************************************************)
(* Model of the import guard, scripts/check_imports.py: configuration      *)
(* loading, file discovery, the top-level import extractor and the         *)
(* check_imports loop that main() drives.                                  *)
(*                                                                         *)
(* Strings are sequences of one-character strings, so that str.split,      *)
(* str.startswith, Path.suffix and iteration over a str do real work.      *)
(* A path is a sequence of components, each component a string.            *)
(***************************************************************************)
EXTENDS Integers, Sequences, FiniteSets, TLC

(* ------------------------------ bounds -------------------------------- *)
\* longest chain of compound statements wrapped around a generated import
MaxDepth == 2
\* most names listed by one generated plain import statement
MaxNames == 2
\* most statements at module level in a generated multi-statement file
MaxStmts == 3
\* most command-line paths of a run
MaxArgs == 2
\* most entries of the "files" object of a generated configuration
MaxEntries == 2

(* ------------------------------ strings ------------------------------- *)
Range(s) == {s[i] : i \in 1..Len(s)}

SeqsUpTo(S, n) == UNION {[1..k -> S] : k \in 0..n}

NonEmptySeqsUpTo(S, n) == UNION {[1..k -> S] : k \in 1..n}

\* the module names used by the generated files and configurations
os == <<"o", "s">>
kfp == <<"k", "f", "p">>
kfp_dsl == <<"k", "f", "p", ".", "d", "s", "l">>
heavy_lib == <<"h", "e", "a", "v", "y", "_", "l", "i", "b">>
sys_ == <<"s", "y", "s">>

\* index of the first "." of s, or Len(s)+1 when there is none
RECURSIVE FirstDot(_, _)
FirstDot(s, i) ==
    IF i > Len(s) THEN i
    ELSE IF s[i] = "." THEN i
    ELSE FirstDot(s, i + 1)

\* name.split(".")[0]
canonicalize_module_name(name) == SubSeq(name, 1, FirstDot(name, 1) - 1)

(* ------------------------------- paths -------------------------------- *)
root == <<"/">>
repo == <<"r">>
pkg == <<"p", "k", "g">>
sub == <<"s", "u", "b">>
dot_cache == <<".", "c">>
docs == <<"d", "o", "c">>
dot == <<".">>
a_py == <<"a", ".", "p", "y">>
b_py == <<"b", ".", "p", "y">>
c_py == <<"c", ".", "p", "y">>
d_py == <<"d", ".", "p", "y">>
notes_txt == <<"n", ".", "t", "x", "t">>
metadata_yaml == <<"m", "e", "t", "a", "d", "a", "t", "a", ".", "y", "a", "m", "l">>
dev_requirements_txt ==
    <<"d", "e", "v", "-", "r", "e", "q", "u", "i", "r", "e", "m", "e", "n", "t", "s",
      ".", "t", "x", "t">>
test_requirements_txt ==
    <<"t", "e", "s", "t", "-", "r", "e", "q", "u", "i", "r", "e", "m", "e", "n", "t", "s",
      ".", "t", "x", "t">>

\* the working directory of the run; relative paths resolve against it
Cwd == <<root, repo>>

\* the directories of the file tree
DirSet ==
    { <<root>>, Cwd, Cwd \o <<pkg>>, Cwd \o <<pkg, sub>>,
      Cwd \o <<pkg, dot_cache>>, Cwd \o <<docs>> }

\* the Python sources of the file tree
PyFileSet ==
    { Cwd \o <<pkg, a_py>>, Cwd \o <<pkg, sub, b_py>>,
      Cwd \o <<pkg, dot_cache, c_py>> }

\* the other regular files that are always there
PlainFileSet == { Cwd \o <<docs, notes_txt>>, Cwd \o <<pkg, metadata_yaml>> }

\* files whose presence is an input of the run
OptionalFileSet ==
    { Cwd \o <<pkg, dev_requirements_txt>>, Cwd \o <<pkg, sub, metadata_yaml>>,
      Cwd \o <<pkg, sub, test_requirements_txt>> }

\* a directory whose presence is an input of the run; its name ends in ".py"
OptionalDirSet == { Cwd \o <<docs, d_py>> }

IsPrefix(p, q) == Len(p) <= Len(q) /\ SubSeq(q, 1, Len(p)) = p

\* Path.parents: the proper ancestors of an absolute path
Parents(p) == {SubSeq(p, 1, k) : k \in 1..(Len(p) - 1)}

\* Path(raw): the components of the path, "." components dropped
RECURSIVE Normalize(_)
Normalize(p) ==
    IF p = <<>> THEN <<>>
    ELSE IF p[Len(p)] = dot THEN Normalize(SubSeq(p, 1, Len(p) - 1))
    ELSE Append(Normalize(SubSeq(p, 1, Len(p) - 1)), p[Len(p)])

\* Path(raw).resolve(): absolute against the working directory, normalized
Resolve(p) ==
    IF p # <<>> /\ p[1] = root THEN Normalize(p) ELSE Normalize(Cwd \o p)

\* index of the last "." of s, or 0
RECURSIVE LastDot(_, _)
LastDot(s, i) ==
    IF i = 0 THEN 0
    ELSE IF s[i] = "." THEN i
    ELSE LastDot(s, i - 1)

\* Path.suffix of a path: the final component from its last dot on
Suffix(p) ==
    IF p = <<>> THEN <<>>
    ELSE LET name == p[Len(p)]
             i == LastDot(name, Len(name))
         IN  IF 1 < i /\ i < Len(name) THEN SubSeq(name, i, Len(name)) ELSE <<>>

dot_py == <<".", "p", "y">>

\* fnmatch of a file name against "*.py"
MatchesStarPy(name) ==
    Len(name) >= 3 /\ SubSeq(name, Len(name) - 2, Len(name)) = dot_py

\* part.startswith(".")
StartsWithDot(part) == part # <<>> /\ part[1] = "."

(* ------------------------- syntax trees ------------------------------- *)
\* the value of ImportFrom.module when the statement names no module
NoneName == <<"None">>

\* a statement as written in a source file; lineno is filled in by ast_parse.
\* semi: the statement follows the previous simple statement after a ";"
Stmt(kind, names, level, module, semi, body) ==
    [kind |-> kind, names |-> names, level |-> level, module |-> module,
     semi |-> semi, lineno |-> 0, body |-> body]

Import(names) == Stmt("Import", names, 0, NoneName, FALSE, <<>>)

ImportFrom(level, module) == Stmt("ImportFrom", <<>>, level, module, FALSE, <<>>)

Expr == Stmt("Expr", <<>>, 0, NoneName, FALSE, <<>>)

Compound(kind, body) == Stmt(kind, <<>>, 0, NoneName, FALSE, body)

Joined(stmt) == [stmt EXCEPT !.semi = TRUE]

\* ast.parse gives every node the line it starts on: statements are numbered
\* in source order, a compound statement's header before its body
RECURSIVE NumberSeq(_, _), NumberStmt(_, _)
NumberSeq(stmts, n) ==
    IF stmts = <<>> THEN [nodes |-> <<>>, next |-> n]
    ELSE LET h == NumberStmt(stmts[1], n)
             t == NumberSeq(Tail(stmts), h.next)
         IN  [nodes |-> <<h.node>> \o t.nodes, next |-> t.next]

NumberStmt(s, n) ==
    IF s.semi
    THEN [node |-> [s EXCEPT !.lineno = n - 1], next |-> n]
    ELSE LET b == NumberSeq(s.body, n + 1)
         IN  [node |-> [s EXCEPT !.lineno = n, !.body = b.nodes], next |-> b.next]

\* ast.parse of the text of a file that parses: the Module node
ast_parse(stmts) ==
    [kind |-> "Module", names |-> <<>>, level |-> 0, module |-> NoneName,
     semi |-> FALSE, lineno |-> 0, body |-> NumberSeq(stmts, 1).nodes]

(* --------------------------- the extractor ---------------------------- *)
IsImportNode(child) == child.kind \in {"Import", "ImportFrom"}

\* a variant that takes only "from . import x", without a module name, for
\* a relative import
IsRelativeImport_unnamed_only(child) ==
    child.kind = "ImportFrom" /\ child.level > 0 /\ child.module = NoneName

\* isinstance(child, ast.ImportFrom) and child.level > 0
IsRelativeImport(child) == child.kind = "ImportFrom" /\ child.level > 0

\* a variant that reports a plain import under the last name it lists
ImportedName_last(child) ==
    IF child.kind = "Import"
    THEN IF child.names = <<>> THEN NoneName ELSE child.names[Len(child.names)]
    ELSE child.module

\* the module name the statement is reported under, NoneName when it has none
ImportedName(child) ==
    IF child.kind = "Import"
    THEN IF child.names = <<>> THEN NoneName ELSE child.names[1]
    ELSE child.module

\* a variant that forgets coroutines
IsScopeDef_no_async(child) == child.kind \in {"FunctionDef", "ClassDef"}

\* isinstance(child, (ast.FunctionDef, ast.AsyncFunctionDef, ast.ClassDef))
IsScopeDef(child) == child.kind \in {"FunctionDef", "AsyncFunctionDef", "ClassDef"}

\* a variant that looks at the direct children of the module only
RECURSIVE ExtractChildren_flat(_)
ExtractChildren_flat(children) ==
    IF children = <<>> THEN <<>>
    ELSE LET child == children[1]
             name == ImportedName(child)
             here ==
                 IF IsImportNode(child)
                 THEN IF IsRelativeImport(child) THEN <<>>
                      ELSE IF name = NoneName \/ name = <<>> THEN <<>>
                      ELSE << <<canonicalize_module_name(name), child.lineno>> >>
                 ELSE <<>>
         IN  here \o ExtractChildren_flat(Tail(children))

\* the (module, line) pairs yielded for the children of one node, in order
RECURSIVE ExtractChildren(_)
ExtractChildren(children) ==
    IF children = <<>> THEN <<>>
    ELSE LET child == children[1]
             name == ImportedName(child)
             here ==
                 IF IsImportNode(child)
                 THEN IF IsRelativeImport(child) THEN <<>>
                      ELSE IF name = NoneName \/ name = <<>> THEN <<>>
                      ELSE << <<canonicalize_module_name(name), child.lineno>> >>
                 ELSE IF IsScopeDef(child) THEN <<>>
                 ELSE ExtractChildren(child.body)
         IN  here \o ExtractChildren(Tail(children))

extract_top_level_imports(node) == ExtractChildren(node.body)

(* ------------------------ the configuration --------------------------- *)
\* A JSON value.  t is its type; s the text of a string; n a number; items
\* the elements of an array, or the keys of an object of module names;
\* entries the key/value pairs of the "files" object, a key being a path.
JVal(t, str, n, items, entries) ==
    [t |-> t, s |-> str, n |-> n, items |-> items, entries |-> entries]

JAbsent == JVal("absent", <<>>, 0, <<>>, <<>>)
JNull == JVal("null", <<>>, 0, <<>>, <<>>)
JStr(str) == JVal("str", str, 0, <<>>, <<>>)
JNum(n) == JVal("num", <<>>, n, <<>>, <<>>)
JArr(items) == JVal("arr", <<>>, 0, items, <<>>)
JKeys(items) == JVal("obj", <<>>, 0, items, <<>>)
JFiles(entries) == JVal("obj", <<>>, 0, <<>>, entries)

\* the configuration document at the --config path
Doc(kind, modules, files) == [kind |-> kind, modules |-> modules, files |-> files]

\* Python truthiness of a JSON value, as tested by "x or default"
Falsy(v) ==
    \/ v.t = "null"
    \/ v.t = "str" /\ v.s = <<>>
    \/ v.t = "num" /\ v.n = 0
    \/ v.t = "arr" /\ v.items = <<>>
    \/ v.t = "obj" /\ v.items = <<>> /\ v.entries = <<>>

\* iter(v) succeeds: a str, a list or a dict
Iterable(v) == v.t \in {"str", "arr", "obj"}

\* what "for item in v" yields: the characters of a str, the elements of a
\* list, the keys of a dict
ItemsOf(v) ==
    IF v.t = "str" THEN [i \in 1..Len(v.s) |-> JStr(<<v.s[i]>>)] ELSE v.items

\* {canonicalize_module_name(item) for item in v}: fails unless v is
\* iterable and every item has a split method
ModuleSet(v) ==
    IF ~Iterable(v) THEN [ok |-> FALSE, set |-> {}]
    ELSE IF \E i \in 1..Len(ItemsOf(v)) : ItemsOf(v)[i].t # "str"
         THEN [ok |-> FALSE, set |-> {}]
    ELSE [ok |-> TRUE,
          set |-> {canonicalize_module_name(ItemsOf(v)[i].s) : i \in 1..Len(ItemsOf(v))}]

\* self.file_allowlist[path] = modules on an insertion-ordered dict
DictSet(d, path, modules) ==
    IF \E i \in 1..Len(d) : d[i].path = path
    THEN [i \in 1..Len(d) |->
            IF d[i].path = path THEN [path |-> path, modules |-> modules] ELSE d[i]]
    ELSE Append(d, [path |-> path, modules |-> modules])

\* the loop of __init__ over file_allowlist.items()
RECURSIVE BuildFileAllowlist(_, _)
BuildFileAllowlist(entries, d) ==
    IF entries = <<>> THEN [ok |-> TRUE, d |-> d]
    ELSE LET ms == ModuleSet(entries[1].val)
         IN  IF ~ms.ok THEN [ok |-> FALSE, d |-> <<>>]
             ELSE BuildFileAllowlist(Tail(entries),
                                     DictSet(d, Resolve(entries[1].key), ms.set))

EmptyConfig == [ok |-> TRUE, module_allowlist |-> {}, file_allowlist |-> <<>>]

ConfigError == [ok |-> FALSE, module_allowlist |-> {}, file_allowlist |-> <<>>]

\* ImportGuardConfig.__init__(modules, files)
ImportGuardConfig(modules, files) ==
    LET ms == IF modules.t = "absent" \/ Falsy(modules)
              THEN [ok |-> TRUE, set |-> {}]
              ELSE ModuleSet(modules)
        fl == IF files.t = "absent" \/ Falsy(files)
              THEN [ok |-> TRUE, d |-> <<>>]
              ELSE IF files.t # "obj"
                   THEN [ok |-> FALSE, d |-> <<>>]
              ELSE BuildFileAllowlist(files.entries, <<>>)
    IN  IF ms.ok /\ fl.ok
        THEN [ok |-> TRUE, module_allowlist |-> ms.set, file_allowlist |-> fl.d]
        ELSE ConfigError

\* a variant that opens the path without testing that it exists
from_path_missing_raises(doc) ==
    IF doc.kind # "object" THEN ConfigError
    ELSE ImportGuardConfig(doc.modules, doc.files)

\* ImportGuardConfig.from_path(path), doc being what is at the path
from_path(doc) ==
    IF doc.kind = "missing" THEN EmptyConfig
    ELSE IF doc.kind # "object" THEN ConfigError
    ELSE ImportGuardConfig(doc.modules, doc.files)

\* a variant that covers the direct children of a directory only
EntryMatches_direct_children(path, resolved) ==
    \/ path = resolved
    \/ path \in DirSet /\ path = SubSeq(resolved, 1, Len(resolved) - 1)

\* path == resolved, or path.is_dir() and path in resolved.parents
EntryMatches(path, resolved) ==
    \/ path = resolved
    \/ path \in DirSet /\ path \in Parents(resolved)

\* a variant in which the last matching entry decides
RECURSIVE FirstMatch_last(_, _, _)
FirstMatch_last(d, resolved, i) ==
    IF i > Len(d) THEN 0
    ELSE LET later == FirstMatch_last(d, resolved, i + 1)
         IN  IF later # 0 THEN later
             ELSE IF EntryMatches(d[i].path, resolved) THEN i
             ELSE 0

\* index of the first entry of the allow-list that matches, 0 when none does
RECURSIVE FirstMatch(_, _, _)
FirstMatch(d, resolved, i) ==
    IF i > Len(d) THEN 0
    ELSE IF EntryMatches(d[i].path, resolved) THEN i
    ELSE FirstMatch(d, resolved, i + 1)

\* ImportGuardConfig.is_allowed(module, file_path)
is_allowed(cfg, module, file_path) ==
    LET canonical_module == canonicalize_module_name(module)
        i == FirstMatch(cfg.file_allowlist, Resolve(file_path), 1)
    IN  \/ canonical_module \in cfg.module_allowlist
        \/ i # 0 /\ canonical_module \in cfg.file_allowlist[i].modules

(* ----------------------------- discovery ------------------------------ *)
\* Path.is_file() / Path.exists() of a regular file; opt: the optional files
FileExists(path, opt) ==
    Resolve(path) \in PyFileSet \cup PlainFileSet \cup (opt \cap OptionalFileSet)

\* every enumeration of a finite set, each element once
Orderings(S) ==
    {f \in [1..Cardinality(S) -> S] : \A i, j \in 1..Cardinality(S) : f[i] = f[j] => i = j}

\* Path.is_dir(); opt: the optional entries of the tree that exist
IsDir(path, opt) == Resolve(path) \in DirSet \cup (opt \cap OptionalDirSet)

\* path.rglob("*.py"): the entries beneath the directory, files and
\* directories alike, whose name matches, each as the directory's path
\* extended by the relative part
RglobPy(path, opt) ==
    {path \o SubSeq(f, Len(Resolve(path)) + 1, Len(f)) :
        f \in {g \in PyFileSet \cup (opt \cap OptionalDirSet) :
                  /\ IsPrefix(Resolve(path), g)
                  /\ g # Resolve(path)
                  /\ MatchesStarPy(g[Len(g)])}}

\* any(part.startswith(".") for part in candidate.parts)
HasHiddenPart(candidate) == \E i \in 1..Len(candidate) : StartsWithDot(candidate[i])

\* the files one command-line path contributes, in every order rglob may
\* produce them
DiscoverOne(raw_path, opt) ==
    LET path == Normalize(raw_path)
    IN  IF FileExists(path, opt) /\ Suffix(path) = dot_py
        THEN {<<path>>}
        ELSE IF IsDir(path, opt)
        THEN Orderings({c \in RglobPy(path, opt) : ~HasHiddenPart(c)})
        ELSE {<<>>}

\* discover_python_files(paths): every list it may return
RECURSIVE discover_python_files(_, _)
discover_python_files(paths, opt) ==
    IF paths = <<>> THEN {<<>>}
    ELSE {h \o t : h \in DiscoverOne(paths[1], opt),
                   t \in discover_python_files(Tail(paths), opt)}

(* ------------------------- the stdlib index --------------------------- *)
xml_dom == <<"x", "m", "l", ".", "d", "o", "m">>

\* sys.builtin_module_names
BuiltinModuleNames == {sys_}

\* the names pkgutil.walk_packages yields for the stdlib directory
StdlibPackageNames == {os, xml_dom}

\* a variant that gives up the built-in names with the stdlib directory
build_stdlib_index_empty(located) ==
    IF located
    THEN BuiltinModuleNames \cup {canonicalize_module_name(n) : n \in StdlibPackageNames}
    ELSE {}

\* build_stdlib_index(); located: the stdlib directory exists
build_stdlib_index(located) ==
    BuiltinModuleNames \cup
        (IF located THEN {canonicalize_module_name(n) : n \in StdlibPackageNames} ELSE {})

(* ------------------------ dependency warnings ------------------------- *)
\* one message of the run: the fields it is formatted from and, in text, the
\* pieces of its format string in order
Line(kind, path, lineno, module, text) ==
    [kind |-> kind, path |-> path, lineno |-> lineno, module |-> module, text |-> text]

DEFAULT_REQUIREMENT_FILES == <<dev_requirements_txt, test_requirements_txt>>

\* [path] + list(path.parents), nearest first
Lineage(path) ==
    LET low == IF path # <<>> /\ path[1] = root THEN 1 ELSE 0
    IN  [i \in 1..(Len(path) - low + 1) |-> SubSeq(path, 1, Len(path) - i + 1)]

NoRoot == <<"no asset root">>

\* find_asset_root(path): NoRoot stands for None
RECURSIVE FindFrom(_, _, _)
FindFrom(lineage, i, opt) ==
    IF i > Len(lineage) THEN NoRoot
    ELSE IF FileExists(lineage[i] \o <<metadata_yaml>>, opt) THEN lineage[i]
    ELSE FindFrom(lineage, i + 1, opt)

find_asset_root(path, opt) == FindFrom(Lineage(path), 1, opt)

\* ensure_dependency_files(asset_root): the set of warnings it returns,
\* empty for None
ensure_dependency_files(asset_root, opt) ==
    IF \E i \in 1..Len(DEFAULT_REQUIREMENT_FILES) :
            FileExists(asset_root \o <<DEFAULT_REQUIREMENT_FILES[i]>>, opt)
    THEN {}
    ELSE {Line("warning", asset_root, 0, <<>>,
               <<"{asset_root}", " is missing a dev/test requirements file (",
                 "{', '.join(DEFAULT_REQUIREMENT_FILES)}", ")">>)}

(* -------------------------- sorting output ---------------------------- *)
\* the characters of the model in code-point order
Alphabet ==
    <<" ", "-", ".", "/", "_", "a", "b", "c", "d", "e", "f", "g", "h", "i", "j", "k",
      "l", "m", "n", "o", "p", "q", "r", "s", "t", "u", "v", "w", "x", "y", "z">>

Ord(c) == CHOOSE i \in 1..Len(Alphabet) : Alphabet[i] = c

\* str(path)
RECURSIVE PathStr(_)
PathStr(p) ==
    IF p = <<>> THEN <<".">>
    ELSE IF Len(p) = 1 THEN p[1]
    ELSE IF p[1] = root THEN root \o PathStr(Tail(p))
    ELSE p[1] \o <<"/">> \o PathStr(Tail(p))

\* a < b for two strings
RECURSIVE StrLess(_, _)
StrLess(a, b) ==
    IF b = <<>> THEN FALSE
    ELSE IF a = <<>> THEN TRUE
    ELSE IF a[1] # b[1] THEN Ord(a[1]) < Ord(b[1])
    ELSE StrLess(Tail(a), Tail(b))

\* the text a warning is compared by: str(asset_root), then " is missing ..."
WarningKey(w) == PathStr(w.path) \o <<" ">>

\* sorted(dependency_warnings)
RECURSIVE SortedWarnings(_)
SortedWarnings(W) ==
    IF W = {} THEN <<>>
    ELSE LET least == CHOOSE w \in W :
                        \A v \in W \ {w} : StrLess(WarningKey(w), WarningKey(v))
         IN  <<least>> \o SortedWarnings(W \ {least})

(* ------------------------------ the guard ----------------------------- *)
ParseFailure(file_path) ==
    Line("parse", file_path, 0, <<>>, <<"{file_path}", ": failed to parse (", "{exc}", ")">>)

\* a variant that leaves the line number out of the message
Violation_no_lineno(file_path, lineno, module_name) ==
    Line("import", file_path, lineno, module_name,
         <<"{file_path}", " imports non-stdlib module '", "{module_name}", "' at top level">>)

Violation(file_path, lineno, module_name) ==
    Line("import", file_path, lineno, module_name,
         <<"{file_path}", ":", "{lineno}", " imports non-stdlib module '",
           "{module_name}", "' at top level">>)

\* file_path.parent
Parent(file_path) == SubSeq(file_path, 1, Len(file_path) - 1)

\* a variant without the "continue" that ends the allow-listed branch
ClassifyImport_missing_continue(decl, file_path, cfg, stdlib, opt) ==
    IF decl[1] \in stdlib
    THEN [violations |-> <<>>, warnings |-> {}]
    ELSE LET asset_root == find_asset_root(Parent(file_path), opt)
         IN  [violations |-> <<Violation(file_path, decl[2], decl[1])>>,
              warnings |-> IF is_allowed(cfg, decl[1], file_path) /\ asset_root # NoRoot
                           THEN ensure_dependency_files(asset_root, opt)
                           ELSE {}]

\* the body of the loop over the imports of one file, for one declaration
ClassifyImport(decl, file_path, cfg, stdlib, opt) ==
    IF decl[1] \in stdlib
    THEN [violations |-> <<>>, warnings |-> {}]
    ELSE IF is_allowed(cfg, decl[1], file_path)
    THEN LET asset_root == find_asset_root(Parent(file_path), opt)
         IN  [violations |-> <<>>,
              warnings |-> IF asset_root = NoRoot THEN {}
                           ELSE ensure_dependency_files(asset_root, opt)]
    ELSE [violations |-> <<Violation(file_path, decl[2], decl[1])>>, warnings |-> {}]

\* a variant that reports a module once per file, however often the file
\* imports it
RECURSIVE ClassifyAll_dedup(_, _, _, _, _)
ClassifyAll_dedup(decls, file_path, cfg, stdlib, opt) ==
    IF decls = <<>> THEN [violations |-> <<>>, warnings |-> {}]
    ELSE LET h == ClassifyImport(decls[1], file_path, cfg, stdlib, opt)
             t == ClassifyAll_dedup(Tail(decls), file_path, cfg, stdlib, opt)
         IN  [violations |->
                  h.violations \o SelectSeq(t.violations, LAMBDA v : v.module # decls[1][1]),
              warnings |-> h.warnings \cup t.warnings]

\* the loop over the imports of one file
RECURSIVE ClassifyAll(_, _, _, _, _)
ClassifyAll(decls, file_path, cfg, stdlib, opt) ==
    IF decls = <<>> THEN [violations |-> <<>>, warnings |-> {}]
    ELSE LET h == ClassifyImport(decls[1], file_path, cfg, stdlib, opt)
             t == ClassifyAll(Tail(decls), file_path, cfg, stdlib, opt)
         IN  [violations |-> h.violations \o t.violations,
              warnings |-> h.warnings \cup t.warnings]

(* ------------------------------ the state ----------------------------- *)
VARIABLES
    cfgDoc,               \* input: the document at the --config path
    argPaths,             \* input: args.paths
    content,              \* input: what each Python file of the tree holds
    fsOptional,           \* input: which of the optional files exist
    stdlibLocated,        \* input: the stdlib directory of the runtime exists
    pc,                   \* where main() is
    config,               \* the ImportGuardConfig built by from_path
    python_files,         \* the list discover_python_files returned
    stdlib_modules,       \* the index built at the start of check_imports
    idx,                  \* how many files of python_files the loop has done
    yielded,              \* per file done, what the extractor yielded for it
    violations,           \* check_imports' list of violations
    dependency_warnings,  \* check_imports' set of warnings
    stderr,               \* the lines printed to the error stream
    exit_code             \* the exit status of the process, -1 while it runs

inputs == <<cfgDoc, argPaths, content, fsOptional, stdlibLocated>>

\* the state of a run of check_imports.py
guard ==
    <<cfgDoc, argPaths, content, fsOptional, stdlibLocated, pc, config, python_files,
      stdlib_modules, idx, yielded, violations, dependency_warnings, stderr, exit_code>>

\* the state of a run of validate_examples.py
VARIABLES
    example_files,        \* input: the modules discover_example_files returned
    ex_pc,                \* where validate_examples.main() is
    module_index,         \* position of module_path in example_files
    pipeline_index,       \* how many pipelines of the module the loop has done
    compiled,             \* main's list of compiled pipelines
    failures,             \* main's list of failure messages
    stdout,               \* the lines printed
    ex_exit               \* the exit status of the process, -1 while it runs

examples ==
    <<example_files, ex_pc, module_index, pipeline_index, compiled, failures, stdout, ex_exit>>

vars == <<guard, examples>>

\* validate_examples.py is not running
ExamplesIdle ==
    /\ example_files = <<>>
    /\ ex_pc = "idle"
    /\ module_index = 0
    /\ pipeline_index = 0
    /\ compiled = <<>>
    /\ failures = <<>>
    /\ stdout = <<>>
    /\ ex_exit = -1

\* the contents of a file
Text(stmts) == [state |-> "ok", stmts |-> stmts]
SyntaxErrorFile == [state |-> "syntax_error", stmts |-> <<>>]
UndecodableFile == [state |-> "undecodable", stmts |-> <<>>]
\* what open() meets when the path is a directory
UnopenableFile == [state |-> "unopenable", stmts |-> <<>>]

(* ----------------------------- the inputs ----------------------------- *)
ModNames == {os, kfp, kfp_dsl, heavy_lib}

\* deepest relative import generated
MaxLevel == 2

\* every import statement over ModNames, and a statement that is no import
TopLeaves ==
    {Import(ns) : ns \in NonEmptySeqsUpTo(ModNames, MaxNames)}
    \cup {ImportFrom(0, m) : m \in ModNames}
    \cup {ImportFrom(l, m) : l \in 1..MaxLevel, m \in ModNames \cup {NoneName}}
    \cup {Expr}

\* the import statements that are generated inside compound statements
NestLeaves ==
    {Import(<<kfp>>), Import(<<os, heavy_lib>>), ImportFrom(0, kfp_dsl),
     ImportFrom(1, NoneName), ImportFrom(MaxLevel, kfp)}

ScopeKinds == {"FunctionDef", "AsyncFunctionDef", "ClassDef"}

\* the nodes that are neither imports nor definitions; an except clause is a
\* node of its own below its try statement
BlockKinds == {"If", "Try", "ExceptHandler", "For", "While", "With"}

\* stmt wrapped in a chain of compound statements, outermost first
RECURSIVE Wrap(_, _)
Wrap(ctx, stmt) ==
    IF ctx = <<>> THEN stmt ELSE Compound(ctx[1], <<Wrap(Tail(ctx), stmt)>>)

NestedFiles ==
    {Text(<<Wrap(ctx, l)>>) :
        ctx \in NonEmptySeqsUpTo(ScopeKinds \cup BlockKinds, MaxDepth), l \in NestLeaves}

\* the statements of the generated multi-statement files
Pool ==
    {Import(<<os>>), Import(<<kfp>>), Joined(Import(<<kfp>>)),
     Compound("FunctionDef", <<Import(<<heavy_lib>>)>>)}

\* a ";" joins a statement to a simple statement before it
WellJoined(stmts) ==
    \A i \in 1..Len(stmts) : stmts[i].semi => (i > 1 /\ stmts[i - 1].body = <<>>)

PoolFiles == {Text(ss) : ss \in {t \in SeqsUpTo(Pool, MaxStmts) : WellJoined(t)}}

ExtractFiles == {Text(<<l>>) : l \in TopLeaves} \cup NestedFiles \cup PoolFiles

FileA == Cwd \o <<pkg, a_py>>
FileB == Cwd \o <<pkg, sub, b_py>>
FileC == Cwd \o <<pkg, dot_cache, c_py>>

DocMissing == Doc("missing", JAbsent, JAbsent)
DocInvalid == Doc("invalid_json", JAbsent, JAbsent)
DocArray == Doc("array", JAbsent, JAbsent)
DocModules(names) == Doc("object", JArr([i \in 1..Len(names) |-> JStr(names[i])]), JAbsent)

\* values of "modules", well-formed and not
ModuleVals ==
    {JAbsent, JNull, JArr(<<>>), JArr(<<JStr(kfp)>>), JArr(<<JStr(kfp_dsl), JStr(os)>>),
     JStr(kfp), JNum(5), JArr(<<JNum(1)>>), JKeys(<<JStr(kfp)>>)}

\* the entries of generated "files" objects
EntryKeys == {<<pkg>>, <<dot, pkg>>, <<pkg, sub>>, <<pkg, sub, b_py>>}

EntryVals == {JArr(<<JStr(kfp_dsl)>>), JArr(<<JStr(heavy_lib)>>), JStr(kfp)}

Entries == {[key |-> k, val |-> v] : k \in EntryKeys, v \in EntryVals}

\* values of "files" other than generated objects
PlainFileVals ==
    {JAbsent, JNull, JArr(<<>>), JArr(<<JStr(pkg)>>), JStr(pkg),
     JFiles(<<[key |-> <<pkg>>, val |-> JNull]>>)}

ConfigDocs ==
    {DocInvalid, DocArray, DocMissing}
    \cup {Doc("object", m, f) : m \in ModuleVals, f \in PlainFileVals}
    \cup {Doc("object", m, JFiles(es)) :
            m \in {JAbsent, JArr(<<JStr(os)>>)}, es \in NonEmptySeqsUpTo(Entries, MaxEntries)}

ConfigFiles ==
    {Text(<<Import(<<kfp_dsl>>)>>), Text(<<Import(<<heavy_lib>>), ImportFrom(1, kfp)>>)}

ArgPaths ==
    {<<pkg>>, <<pkg, sub>>, <<pkg, a_py>>, <<docs>>, <<pkg, dot_cache, c_py>>}

BatchFiles ==
    {Text(<<Import(<<os>>)>>), Text(<<Import(<<kfp>>), Import(<<heavy_lib>>)>>),
     SyntaxErrorFile, UndecodableFile}

TypeOK ==
    /\ pc \in {"idle", "load_config", "discover", "build_index", "scan", "done", "aborted",
              "crashed"}
    /\ exit_code \in {-1, 0, 1}
    /\ idx \in 0..Len(python_files)
    /\ Len(yielded) = idx

\* the state of the process before main() has done anything
Fresh ==
    /\ pc = "load_config"
    /\ config = EmptyConfig
    /\ python_files = <<>>
    /\ stdlib_modules = {}
    /\ idx = 0
    /\ yielded = <<>>
    /\ violations = <<>>
    /\ dependency_warnings = {}
    /\ stderr = <<>>
    /\ exit_code = -1

\* one file, every generated shape of its contents
InitExtract ==
    /\ cfgDoc \in {DocMissing, DocModules(<<kfp>>)}
    /\ argPaths = << <<pkg, a_py>> >>
    /\ \E c \in ExtractFiles :
          content = [f \in PyFileSet |-> IF f = FileA THEN c ELSE Text(<<>>)]
    /\ fsOptional = {}
    /\ stdlibLocated \in BOOLEAN

\* every generated configuration document, over the files of pkg
InitConfig ==
    /\ cfgDoc \in ConfigDocs
    /\ argPaths = << <<pkg>> >>
    /\ \E ca, cb \in ConfigFiles :
          content = [f \in PyFileSet |->
                        IF f = FileA THEN ca ELSE IF f = FileB THEN cb ELSE Text(<<>>)]
    /\ fsOptional = {}
    /\ stdlibLocated = TRUE

\* every command line, over files that parse, fail to parse or cannot be read
InitBatch ==
    /\ cfgDoc \in {DocMissing, DocModules(<<kfp>>), DocInvalid}
    /\ argPaths \in NonEmptySeqsUpTo(ArgPaths, MaxArgs)
    /\ \E ca, cb \in BatchFiles, cc \in {Text(<<Import(<<kfp>>)>>), SyntaxErrorFile} :
          content = [f \in PyFileSet |->
                        IF f = FileA THEN ca ELSE IF f = FileB THEN cb ELSE cc]
    /\ fsOptional \in {{}, {Cwd \o <<pkg, dev_requirements_txt>>}}
    /\ stdlibLocated = TRUE

\* the paths of the command lines that exercise discovery
DiscoverPaths ==
    {<<pkg>>, <<pkg, sub>>, <<dot>>, <<docs>>, <<pkg, dot_cache>>, <<pkg, dot_cache, c_py>>,
     <<docs, notes_txt>>, <<docs, d_py>>, <<sub>>, Cwd \o <<pkg>>}

\* every command line over files, directories, hidden and missing paths
InitDiscover ==
    /\ cfgDoc = DocMissing
    /\ argPaths \in NonEmptySeqsUpTo(DiscoverPaths, MaxArgs)
    /\ content = [f \in PyFileSet |-> Text(<<Import(<<os>>)>>)]
    /\ fsOptional \in {{}, OptionalDirSet}
    /\ stdlibLocated = TRUE

\* the paths of the command lines that exercise the warnings
AssetPaths == {<<pkg>>, <<pkg, a_py>>, <<pkg, sub>>, Cwd \o <<pkg, a_py>>}

AssetFiles ==
    {Text(<<Import(<<kfp>>)>>), Text(<<Import(<<kfp_dsl>>), Import(<<kfp>>)>>),
     Text(<<Import(<<os>>), Import(<<heavy_lib>>)>>)}

\* allow-listed imports below asset roots with and without requirement files
InitAssets ==
    /\ cfgDoc = DocModules(<<kfp>>)
    /\ argPaths \in NonEmptySeqsUpTo(AssetPaths, MaxArgs)
    /\ \E ca, cb \in AssetFiles :
          content = [f \in PyFileSet |->
                        IF f = FileA THEN ca ELSE IF f = FileB THEN cb ELSE Text(<<>>)]
    /\ fsOptional \in SUBSET OptionalFileSet
    /\ stdlibLocated = TRUE

\* files importing built-in, stdlib and third-party modules, scanned with the
\* stdlib directory in place or not
StdlibFiles ==
    {Text(<<Import(<<sys_>>), Import(<<os>>)>>), Text(<<Import(<<os, kfp>>)>>),
     Text(<<ImportFrom(0, xml_dom), Import(<<sys_, heavy_lib>>)>>)}

InitStdlib ==
    /\ cfgDoc \in {DocMissing, DocModules(<<kfp>>)}
    /\ argPaths \in {<< <<pkg>> >>, << <<pkg, a_py>> >>}
    /\ \E ca, cb \in StdlibFiles :
          content = [f \in PyFileSet |->
                        IF f = FileA THEN ca ELSE IF f = FileB THEN cb ELSE Text(<<>>)]
    /\ fsOptional = {}
    /\ stdlibLocated \in BOOLEAN

Init ==
    Fresh /\ ExamplesIdle
          /\ (InitExtract \/ InitConfig \/ InitBatch \/ InitDiscover \/ InitAssets
                \/ InitStdlib)

(* ----------------------------- the actions ---------------------------- *)
\* main(): config = ImportGuardConfig.from_path(Path(args.config))
LoadConfig ==
    /\ pc = "load_config"
    /\ LET cfg == from_path(cfgDoc)
       IN  IF cfg.ok
           THEN /\ config' = cfg
                /\ pc' = "discover"
                /\ exit_code' = exit_code
           ELSE /\ config' = config
                /\ pc' = "aborted"
                /\ exit_code' = 1
    /\ UNCHANGED <<inputs, examples, python_files, stdlib_modules, idx, yielded, violations,
                   dependency_warnings, stderr>>

\* main(): python_files = discover_python_files(args.paths) and the early
\* return when it is empty
Discover ==
    /\ pc = "discover"
    /\ \E files \in discover_python_files(argPaths, fsOptional) :
          /\ python_files' = files
          /\ IF files = <<>>
             THEN /\ stderr' = Append(stderr, [prefix |-> "",
                        line |-> Line("info", <<>>, 0, <<>>,
                                      <<"No Python files found to inspect.">>)])
                  /\ exit_code' = 0
                  /\ pc' = "done"
             ELSE /\ stderr' = stderr
                  /\ exit_code' = exit_code
                  /\ pc' = "build_index"
    /\ UNCHANGED <<inputs, examples, config, stdlib_modules, idx, yielded, violations,
                   dependency_warnings>>

\* check_imports(): stdlib_modules = build_stdlib_index() and the empty lists
BuildIndex ==
    /\ pc = "build_index"
    /\ stdlib_modules' = build_stdlib_index(stdlibLocated)
    /\ violations' = <<>>
    /\ dependency_warnings' = {}
    /\ pc' = "scan"
    /\ UNCHANGED <<inputs, examples, config, python_files, idx, yielded, stderr, exit_code>>

\* a variant whose findings for a file depend on the files before it: a
\* module already reported for an earlier file is not reported again
ScanFile_skip_reported ==
    /\ pc = "scan"
    /\ idx < Len(python_files)
    /\ LET file_path == python_files[idx + 1]
           c == IF Resolve(file_path) \in PyFileSet
                THEN content[Resolve(file_path)]
                ELSE UnopenableFile
           decls == extract_top_level_imports(ast_parse(c.stmts))
           found == ClassifyAll(decls, file_path, config, stdlib_modules, fsOptional)
           seen == {violations[k].module : k \in 1..Len(violations)}
       IN  CASE c.state \in {"undecodable", "unopenable"} ->
                   /\ pc' = "crashed"
                   /\ exit_code' = 1
                   /\ UNCHANGED <<idx, yielded, violations, dependency_warnings>>
             [] c.state = "syntax_error" ->
                   /\ violations' = Append(violations, ParseFailure(file_path))
                   /\ idx' = idx + 1
                   /\ yielded' = Append(yielded, <<>>)
                   /\ UNCHANGED <<pc, exit_code, dependency_warnings>>
             [] OTHER ->
                   /\ violations' = violations
                          \o SelectSeq(found.violations, LAMBDA v : v.module \notin seen)
                   /\ dependency_warnings' = dependency_warnings \cup found.warnings
                   /\ idx' = idx + 1
                   /\ yielded' = Append(yielded, decls)
                   /\ UNCHANGED <<pc, exit_code>>
    /\ UNCHANGED <<inputs, examples, config, python_files, stdlib_modules, stderr>>

\* check_imports(): one turn of the loop over files
ScanFile ==
    /\ pc = "scan"
    /\ idx < Len(python_files)
    /\ LET file_path == python_files[idx + 1]
           c == IF Resolve(file_path) \in PyFileSet
                THEN content[Resolve(file_path)]
                ELSE UnopenableFile
           decls == extract_top_level_imports(ast_parse(c.stmts))
           found == ClassifyAll(decls, file_path, config, stdlib_modules, fsOptional)
       IN  CASE c.state \in {"undecodable", "unopenable"} ->
                   \* UnicodeDecodeError and IsADirectoryError are no SyntaxError:
                   \* they leave check_imports
                   /\ pc' = "crashed"
                   /\ exit_code' = 1
                   /\ UNCHANGED <<idx, yielded, violations, dependency_warnings>>
             [] c.state = "syntax_error" ->
                   /\ violations' = Append(violations, ParseFailure(file_path))
                   /\ idx' = idx + 1
                   /\ yielded' = Append(yielded, <<>>)
                   /\ UNCHANGED <<pc, exit_code, dependency_warnings>>
             [] OTHER ->
                   /\ violations' = violations \o found.violations
                   /\ dependency_warnings' = dependency_warnings \cup found.warnings
                   /\ idx' = idx + 1
                   /\ yielded' = Append(yielded, decls)
                   /\ UNCHANGED <<pc, exit_code>>
    /\ UNCHANGED <<inputs, examples, config, python_files, stdlib_modules, stderr>>

\* a variant that fails the run on a warning
Report_warnings_fail ==
    /\ pc = "scan"
    /\ idx = Len(python_files)
    /\ LET ws == SortedWarnings(dependency_warnings)
       IN  stderr' = stderr
                \o [i \in 1..Len(ws) |-> [prefix |-> "WARNING: ", line |-> ws[i]]]
                \o [i \in 1..Len(violations) |-> [prefix |-> "", line |-> violations[i]]]
    /\ exit_code' = IF violations # <<>> \/ dependency_warnings # {} THEN 1 ELSE 0
    /\ pc' = "done"
    /\ UNCHANGED <<inputs, examples, config, python_files, stdlib_modules, idx, yielded,
                   violations, dependency_warnings>>

\* check_imports(): after the loop, print the warnings and the violations
\* and return
Report ==
    /\ pc = "scan"
    /\ idx = Len(python_files)
    /\ LET ws == SortedWarnings(dependency_warnings)
       IN  stderr' = stderr
                \o [i \in 1..Len(ws) |-> [prefix |-> "WARNING: ", line |-> ws[i]]]
                \o [i \in 1..Len(violations) |-> [prefix |-> "", line |-> violations[i]]]
    /\ exit_code' = IF violations # <<>> THEN 1 ELSE 0
    /\ pc' = "done"
    /\ UNCHANGED <<inputs, examples, config, python_files, stdlib_modules, idx, yielded,
                   violations, dependency_warnings>>

Next == LoadConfig \/ Discover \/ BuildIndex \/ ScanFile \/ Report

Spec == Init /\ [][Next]_vars

(* ------------------- validate_examples.py: main() --------------------- *)
\* most modules in example_files, most pipelines in one module
MaxModules == 2
MaxPipelines == 2

\* what compile_pipeline does with a pipeline: it returns, or it raises an
\* Exception
CompileOutcomes == {"ok", "raises"}

\* a module of example_files: whether load_module_from_path returns it or
\* raises, and what compiling each pipeline that collect_pipeline_functions
\* returns for it does, in order
ExampleModules ==
    {[loads |-> TRUE, pipelines |-> ps] : ps \in SeqsUpTo(CompileOutcomes, MaxPipelines)}
    \cup {[loads |-> FALSE, pipelines |-> <<>>]}

\* f"{module_path.relative_to(REPO_ROOT)}::{pipeline_name}".  The paths of
\* example_files are distinct and so are the names of a module's pipelines:
\* a module is named by its position in example_files, a pipeline by its
\* position in the module.
Entry(m, p) == [module |-> m, pipeline |-> p]

\* a printed line: which print statement, and the entry it is about
OutLine(kind, m, p) == [kind |-> kind, entry |-> Entry(m, p)]

\* the state of the guard while validate_examples.py runs
GuardIdle ==
    /\ cfgDoc = DocMissing
    /\ argPaths = <<>>
    /\ content = [f \in PyFileSet |-> Text(<<>>)]
    /\ fsOptional = {}
    /\ stdlibLocated = TRUE
    /\ pc = "idle"
    /\ config = EmptyConfig
    /\ python_files = <<>>
    /\ stdlib_modules = {}
    /\ idx = 0
    /\ yielded = <<>>
    /\ violations = <<>>
    /\ dependency_warnings = {}
    /\ stderr = <<>>
    /\ exit_code = -1

InitExamples ==
    /\ GuardIdle
    /\ example_files \in SeqsUpTo(ExampleModules, MaxModules)
    /\ ex_pc = "start"
    /\ module_index = 0
    /\ pipeline_index = 0
    /\ compiled = <<>>
    /\ failures = <<>>
    /\ stdout = <<>>
    /\ ex_exit = -1

\* main(): the early return when nothing was discovered, and the empty lists
StartExamples ==
    /\ ex_pc = "start"
    /\ IF example_files = <<>>
       THEN /\ stdout' = Append(stdout, OutLine("nothing_found", 0, 0))
            /\ ex_exit' = 0
            /\ ex_pc' = "done"
            /\ module_index' = module_index
       ELSE /\ stdout' = stdout
            /\ ex_exit' = ex_exit
            /\ ex_pc' = "load"
            /\ module_index' = 1
    /\ failures' = <<>>
    /\ compiled' = <<>>
    /\ UNCHANGED <<guard, example_files, pipeline_index>>

\* main(): the head of one turn of the loop over example_files: load the
\* module, collect its pipelines, and skip it when it has none
LoadModule ==
    /\ ex_pc = "load"
    /\ LET module == example_files[module_index]
       IN  IF ~module.loads
           THEN \* load_module_from_path raises outside any try
                /\ ex_pc' = "crashed"
                /\ ex_exit' = 1
                /\ UNCHANGED <<module_index, pipeline_index, stdout>>
           ELSE IF module.pipelines = <<>>
           THEN /\ stdout' = Append(stdout, OutLine("no_pipelines", module_index, 0))
                /\ IF module_index < Len(example_files)
                   THEN module_index' = module_index + 1 /\ ex_pc' = "load"
                   ELSE module_index' = module_index /\ ex_pc' = "report"
                /\ UNCHANGED <<pipeline_index, ex_exit>>
           ELSE /\ ex_pc' = "compile"
                /\ pipeline_index' = 0
                /\ UNCHANGED <<module_index, stdout, ex_exit>>
    /\ UNCHANGED <<guard, example_files, compiled, failures>>

\* a variant that gives up the compilation at the first failure
CompileOne_stop_at_failure ==
    /\ ex_pc = "compile"
    /\ LET module == example_files[module_index]
           p == pipeline_index + 1
       IN  /\ IF module.pipelines[p] = "ok"
              THEN /\ compiled' = Append(compiled, Entry(module_index, p))
                   /\ failures' = failures
              ELSE /\ failures' = Append(failures, Entry(module_index, p))
                   /\ compiled' = compiled
           /\ IF module.pipelines[p] # "ok"
              THEN /\ pipeline_index' = p
                   /\ module_index' = module_index
                   /\ ex_pc' = "report"
              ELSE IF p < Len(module.pipelines)
              THEN /\ pipeline_index' = p
                   /\ module_index' = module_index
                   /\ ex_pc' = "compile"
              ELSE IF module_index < Len(example_files)
              THEN /\ pipeline_index' = 0
                   /\ module_index' = module_index + 1
                   /\ ex_pc' = "load"
              ELSE /\ pipeline_index' = p
                   /\ module_index' = module_index
                   /\ ex_pc' = "report"
    /\ UNCHANGED <<guard, example_files, stdout, ex_exit>>

\* main(): one turn of the loop over the pipelines of a module
CompileOne ==
    /\ ex_pc = "compile"
    /\ LET module == example_files[module_index]
           p == pipeline_index + 1
       IN  /\ IF module.pipelines[p] = "ok"
              THEN /\ compiled' = Append(compiled, Entry(module_index, p))
                   /\ failures' = failures
              ELSE \* except Exception: the message, known by the entry it is about
                   /\ failures' = Append(failures, Entry(module_index, p))
                   /\ compiled' = compiled
           /\ IF p < Len(module.pipelines)
              THEN /\ pipeline_index' = p
                   /\ module_index' = module_index
                   /\ ex_pc' = "compile"
              ELSE IF module_index < Len(example_files)
              THEN /\ pipeline_index' = 0
                   /\ module_index' = module_index + 1
                   /\ ex_pc' = "load"
              ELSE /\ pipeline_index' = p
                   /\ module_index' = module_index
                   /\ ex_pc' = "report"
    /\ UNCHANGED <<guard, example_files, stdout, ex_exit>>

\* main(): after the loop, print both lists and return
ReportExamples ==
    /\ ex_pc = "report"
    /\ stdout' = stdout
          \o [k \in 1..Len(compiled) |->
                OutLine("compiled", compiled[k].module, compiled[k].pipeline)]
          \o (IF failures # <<>>
              THEN <<OutLine("failures_detected", 0, 0)>>
                   \o [k \in 1..Len(failures) |->
                         OutLine("failure", failures[k].module, failures[k].pipeline)]
              ELSE <<OutLine("all_compiled", 0, 0)>>)
    /\ ex_exit' = IF failures # <<>> THEN 1 ELSE 0
    /\ ex_pc' = "done"
    /\ UNCHANGED <<guard, example_files, module_index, pipeline_index, compiled, failures>>

NextExamples == StartExamples \/ LoadModule \/ CompileOne \/ ReportExamples

SpecExamples == InitExamples /\ [][NextExamples]_vars

(* ====================================================================== *)
(*                             the properties                             *)
(* ====================================================================== *)
Terminated == pc \in {"done", "aborted", "crashed"}

\* the file at position i of the batch was turned into a syntax tree
Parsed(i) ==
    /\ Resolve(python_files[i]) \in PyFileSet
    /\ content[Resolve(python_files[i])].state = "ok"

TreeOf(i) == ast_parse(content[Resolve(python_files[i])].stmts)

\* every statement below a node, with its line, and whether it lies inside
\* the body of a function, coroutine or class definition
RECURSIVE Statements(_, _)
Statements(children, scoped) ==
    IF children = <<>> THEN {}
    ELSE LET c == children[1]
         IN  {[kind |-> c.kind, names |-> c.names, level |-> c.level, module |-> c.module,
               lineno |-> c.lineno, scoped |-> scoped]}
             \cup Statements(c.body, scoped \/ c.kind \in ScopeKinds)
             \cup Statements(Tail(children), scoped)

StatementsOf(i) == Statements(TreeOf(i).body, FALSE)

\* the positions of the violation list that report an import of the file
\* at position i of the batch on the given line
ReportsAt(i, lineno) ==
    {k \in 1..Len(violations) :
        /\ violations[k].kind = "import"
        /\ violations[k].path = python_files[i]
        /\ violations[k].lineno = lineno}

\* the file of the end-to-end scenarios: import os / import kfp / a function
\* that imports heavy_lib
ScenarioFile ==
    Text(<<Import(<<os>>), Import(<<kfp>>),
           Compound("FunctionDef", <<Import(<<heavy_lib>>)>>)>>)

ScenarioRun ==
    /\ pc = "done"
    /\ python_files = << <<pkg, a_py>> >>
    /\ content[FileA] = ScenarioFile
    /\ os \in stdlib_modules

\* C1: a run exits 0 exactly when it reaches the end of the scan with an
\* empty violation list and 1 otherwise; a file that fails to parse makes it
\* 1; warnings play no part; a run that discovers no file exits 0 and scans
\* nothing.
C1_ExitStatus ==
    /\ ~Terminated => exit_code = -1
    /\ Terminated => exit_code = (IF pc = "done" /\ violations = <<>> THEN 0 ELSE 1)
    /\ (pc = "done" /\ \E i \in 1..Len(python_files) : ~Parsed(i)) => exit_code = 1
    /\ (pc = "done" /\ python_files = <<>>) =>
          exit_code = 0 /\ idx = 0 /\ yielded = <<>> /\ stdlib_modules = {}

\* a run that ends with a warning and no violation, and exits 0
C1_Witness ==
    /\ pc = "done"
    /\ dependency_warnings # {}
    /\ violations = <<>>
    /\ exit_code = 0

\* the triples (position in the batch, line, module) of the imports yielded
\* so far that are neither in the stdlib index nor allow-listed for the file
Offending ==
    {o \in UNION {{<<i, j>> : j \in 1..Len(yielded[i])} : i \in 1..idx} :
        /\ yielded[o[1]][o[2]][1] \notin stdlib_modules
        /\ ~is_allowed(config, yielded[o[1]][o[2]][1], python_files[o[1]])}

\* C2: the violation list holds one entry for each yielded import that is
\* neither stdlib nor allow-listed, no more and no fewer, with the file, line
\* and module of that import; the scenario file scanned with an empty
\* allow-list gives exactly the violation (file, 2, kfp) and exit code 1.
C2_EveryOffenderOnce ==
    /\ \A o \in Offending :
          Cardinality(ReportsAt(o[1], yielded[o[1]][o[2]][2])
                        \cap {k \in 1..Len(violations) :
                                violations[k].module = yielded[o[1]][o[2]][1]})
            = Cardinality({q \in Offending :
                            /\ python_files[q[1]] = python_files[o[1]]
                            /\ yielded[q[1]][q[2]] = yielded[o[1]][o[2]]})
    /\ Cardinality({k \in 1..Len(violations) : violations[k].kind = "import"})
          = Cardinality(Offending)
    /\ (ScenarioRun /\ config = EmptyConfig) =>
          /\ violations = <<Violation(<<pkg, a_py>>, 2, kfp)>>
          /\ exit_code = 1

\* the scenario has run with an empty allow-list
C2_Witness == ScenarioRun /\ config = EmptyConfig /\ Len(violations) = 1

\* C3: when every file of the batch parsed and every import yielded is in
\* the stdlib index or allow-listed for its file, the run ends with no
\* violation and exit code 0; the scenario file scanned with
\* {"modules": ["kfp"]} does.
C3_NoFalsePositive ==
    /\ (pc = "done" /\ Offending = {} /\ \A i \in 1..Len(python_files) : Parsed(i)) =>
          violations = <<>> /\ exit_code = 0
    /\ (ScenarioRun /\ cfgDoc = DocModules(<<kfp>>)) =>
          violations = <<>> /\ exit_code = 0

\* the scenario has run with kfp allow-listed
C3_Witness == ScenarioRun /\ cfgDoc = DocModules(<<kfp>>) /\ exit_code = 0

\* C4: no import statement inside the body of a function, coroutine or class
\* definition, at any depth and under any module-level block, is yielded or
\* reported.
C4_ScopedImportsSkipped ==
    \A i \in 1..idx : Parsed(i) =>
        \A n \in StatementsOf(i) :
            (n.scoped /\ n.kind \in {"Import", "ImportFrom"}) =>
                /\ \A j \in 1..Len(yielded[i]) : yielded[i][j][2] # n.lineno
                /\ ReportsAt(i, n.lineno) = {}

\* a scanned file whose only import, of a module that is neither stdlib nor
\* allow-listed, sits in a definition under a module-level block
C4_Witness ==
    /\ pc = "done"
    /\ config = EmptyConfig
    /\ \E k \in BlockKinds, d \in ScopeKinds :
          content[FileA] = Text(<<Wrap(<<k, d>>, Import(<<kfp>>))>>)
    /\ yielded = << <<>> >>
    /\ violations = <<>>

\* C5: a relative import, with or without a module name and at any depth,
\* is never yielded and never reported.
C5_RelativeImportsSkipped ==
    \A i \in 1..idx : Parsed(i) =>
        \A n \in StatementsOf(i) :
            (n.kind = "ImportFrom" /\ n.level >= 1) =>
                /\ \A j \in 1..Len(yielded[i]) : yielded[i][j][2] # n.lineno
                /\ ReportsAt(i, n.lineno) = {}

\* a scanned file that is one relative import of a module that is neither
\* stdlib nor allow-listed
C5_Witness ==
    /\ pc = "done"
    /\ config = EmptyConfig
    /\ content[FileA] = Text(<<ImportFrom(1, kfp)>>)
    /\ python_files = << <<pkg, a_py>> >>
    /\ violations = <<>>

\* C6: a plain import of several modules outside every definition yields one
\* declaration, the canonical first name with the statement's line, and only
\* that name can be reported for the line.
C6_FirstNameOnly ==
    \A i \in 1..idx : Parsed(i) =>
        \A n \in StatementsOf(i) :
            (n.kind = "Import" /\ Len(n.names) >= 2 /\ ~n.scoped) =>
                /\ SelectSeq(yielded[i], LAMBDA d : d[2] = n.lineno)
                      = << <<canonicalize_module_name(n.names[1]), n.lineno>> >>
                /\ \A k \in ReportsAt(i, n.lineno) :
                      violations[k].module = canonicalize_module_name(n.names[1])

\* a scanned file "import os, heavy_lib": nothing is reported although
\* heavy_lib is neither stdlib nor allow-listed
C6_Witness ==
    /\ pc = "done"
    /\ config = EmptyConfig
    /\ content[FileA] = Text(<<Import(<<os, heavy_lib>>)>>)
    /\ python_files = << <<pkg, a_py>> >>
    /\ os \in stdlib_modules
    /\ violations = <<>>

\* C7 as claimed: whatever keeps a file from being turned into a syntax
\* tree, the run goes through the whole batch: such a file leaves one
\* parse-failure entry and no import, every other file is extracted in
\* full, and the run returns 1.
C7_ScanAlwaysCompletes ==
    (Terminated /\ python_files # <<>>) =>
        /\ pc = "done"
        /\ idx = Len(python_files)
        /\ \A i \in 1..Len(python_files) :
              IF Parsed(i)
              THEN yielded[i] = extract_top_level_imports(TreeOf(i))
              ELSE /\ yielded[i] = <<>>
                   /\ exit_code = 1
                   /\ Cardinality({k \in 1..Len(violations) :
                                      /\ violations[k].kind = "parse"
                                      /\ violations[k].path = python_files[i]})
                        = Cardinality({q \in 1..Len(python_files) :
                                          /\ ~Parsed(q)
                                          /\ python_files[q] = python_files[i]})

\* the entry at position k of the allow-list is a directory above the file
CoversAsDirectory(k, file) ==
    /\ config.file_allowlist[k].path \in DirSet
    /\ IsPrefix(config.file_allowlist[k].path, file)
    /\ config.file_allowlist[k].path # file

\* no entry before position k is the file or a directory above it
NoEarlierMatch(k, file) ==
    \A j \in 1..(k - 1) : ~IsPrefix(config.file_allowlist[j].path, file)

\* C8 as claimed: a directory entry allows each of its modules for every
\* file beneath the directory, whatever other entries there are.
C8_DirectoryEntryAlwaysCovers ==
    \A k \in 1..Len(config.file_allowlist), f \in PyFileSet :
        CoversAsDirectory(k, f) =>
            \A m \in config.file_allowlist[k].modules : is_allowed(config, m, f)

\* C8 amended: a directory entry allows each of its modules for every file
\* beneath the directory, at any depth, that no earlier entry of the
\* allow-list matches; no import of such a module by such a file is reported.
C8_FirstDirectoryEntryCovers ==
    \A k \in 1..Len(config.file_allowlist), f \in PyFileSet :
        (CoversAsDirectory(k, f) /\ NoEarlierMatch(k, f)) =>
            /\ \A m \in config.file_allowlist[k].modules : is_allowed(config, m, f)
            /\ \A v \in 1..Len(violations) :
                  (violations[v].kind = "import" /\ Resolve(violations[v].path) = f) =>
                      violations[v].module \notin config.file_allowlist[k].modules

\* a finished run in which pkg/sub/b.py, two levels below the entry for pkg,
\* imported kfp.dsl under that entry and nothing was reported for it
C8_Witness ==
    /\ pc = "done"
    /\ config.module_allowlist = {}
    /\ Len(config.file_allowlist) = 1
    /\ config.file_allowlist[1] = [path |-> Cwd \o <<pkg>>, modules |-> {kfp}]
    /\ \E i \in 1..Len(python_files) :
          /\ python_files[i] = <<pkg, sub, b_py>>
          /\ yielded[i] = << <<kfp, 1>> >>
          /\ ReportsAt(i, 1) = {}

\* "modules" is an array of strings, or is not there
WellFormedModules(v) ==
    v.t = "absent" \/ (v.t = "arr" /\ \A i \in 1..Len(v.items) : v.items[i].t = "str")

\* "files" is an object that maps paths to arrays of strings, or is not there
WellFormedFiles(v) ==
    \/ v.t = "absent"
    \/ /\ v.t = "obj"
       /\ v.items = <<>>
       /\ \A i \in 1..Len(v.entries) :
             v.entries[i].val.t = "arr" /\ WellFormedModules(v.entries[i].val)

Malformed(doc) ==
    /\ doc.kind # "missing"
    /\ \/ doc.kind # "object"
       \/ ~WellFormedModules(doc.modules)
       \/ ~WellFormedFiles(doc.files)

\* C9 as claimed: a run whose configuration document is malformed never gets
\* past loading it: no allow-list is built, no file discovered or scanned.
C9_MalformedConfigAborts ==
    Malformed(cfgDoc) =>
        /\ pc \in {"load_config", "aborted"}
        /\ python_files = <<>>
        /\ idx = 0

\* C10: a configuration path that does not exist is no error: the run goes
\* on with an allow-list that permits nothing, and every yielded import
\* outside the stdlib index is reported.
C10_MissingConfigPermitsNothing ==
    (cfgDoc.kind = "missing" /\ pc # "load_config") =>
        /\ pc # "aborted"
        /\ config.module_allowlist = {}
        /\ config.file_allowlist = <<>>
        /\ \A m \in ModNames, f \in PyFileSet : ~is_allowed(config, m, f)
        /\ \A i \in 1..idx : \A j \in 1..Len(yielded[i]) :
              yielded[i][j][1] \notin stdlib_modules =>
                  \E k \in ReportsAt(i, yielded[i][j][2]) :
                      violations[k].module = yielded[i][j][1]

\* a finished run without a configuration file that reported an import
C10_Witness ==
    /\ cfgDoc.kind = "missing"
    /\ pc = "done"
    /\ \E k \in 1..Len(violations) : violations[k].kind = "import"
    /\ exit_code = 1

\* the directory a file belongs to as an asset: the nearest directory above
\* it that holds metadata.yaml
IsMarked(dir) == dir \o <<metadata_yaml>> \in PlainFileSet \cup fsOptional

NearestMarked(file) ==
    {d \in Parents(file) :
        IsMarked(d) /\ \A e \in Parents(file) : IsMarked(e) => Len(e) <= Len(d)}

HasRequirementFile(dir) ==
    \/ dir \o <<dev_requirements_txt>> \in PlainFileSet \cup fsOptional
    \/ dir \o <<test_requirements_txt>> \in PlainFileSet \cup fsOptional

\* the asset roots without requirement files below which a scanned file has
\* an import that is outside the stdlib index and allow-listed
TriggeredRoots ==
    {d \in DirSet :
        /\ ~HasRequirementFile(d)
        /\ \E i \in 1..idx :
              /\ Parsed(i)
              /\ d \in NearestMarked(Resolve(python_files[i]))
              /\ \E j \in 1..Len(yielded[i]) :
                    /\ yielded[i][j][1] \notin stdlib_modules
                    /\ is_allowed(config, yielded[i][j][1], python_files[i])}

PrintedWarnings == SelectSeq(stderr, LAMBDA l : l.prefix = "WARNING: ")

\* C11 as claimed: at the end of a run there is one warning for each asset
\* root that triggers one and no other, one per root however many files and
\* imports trigger it, and each is printed once, in sorted order.
C11_OneWarningPerRoot ==
    (pc = "done" /\ python_files # <<>>) =>
        /\ {Resolve(w.path) : w \in dependency_warnings} = TriggeredRoots
        /\ Cardinality(dependency_warnings) = Cardinality(TriggeredRoots)
        /\ Len(PrintedWarnings) = Cardinality(dependency_warnings)
        /\ {PrintedWarnings[i].line : i \in 1..Len(PrintedWarnings)} = dependency_warnings
        /\ \A i \in 1..(Len(PrintedWarnings) - 1) :
              StrLess(WarningKey(PrintedWarnings[i].line),
                      WarningKey(PrintedWarnings[i + 1].line))

\* what one run is given, read off the inputs alone: the files the paths
\* lead to, in no order, and what scanning one of them by itself finds
DiscoveredFiles == UNION {Range(files) : files \in discover_python_files(argPaths, fsOptional)}

ContentOf(file_path) ==
    IF Resolve(file_path) \in PyFileSet THEN content[Resolve(file_path)] ELSE UnopenableFile

FindingsOf(file_path) ==
    IF ContentOf(file_path).state = "syntax_error" THEN {ParseFailure(file_path)}
    ELSE Range(ClassifyAll(extract_top_level_imports(ast_parse(ContentOf(file_path).stmts)),
                           file_path, from_path(cfgDoc),
                           build_stdlib_index(stdlibLocated), fsOptional).violations)

Unreadable == {f \in DiscoveredFiles : ContentOf(f).state \in {"undecodable", "unopenable"}}

ExpectedViolations ==
    IF ~from_path(cfgDoc).ok \/ Unreadable # {} THEN {}
    ELSE UNION {FindingsOf(f) : f \in DiscoveredFiles}

ExpectedExit ==
    IF ~from_path(cfgDoc).ok \/ Unreadable # {} \/ ExpectedViolations # {} THEN 1 ELSE 0

PrintedViolations ==
    {stderr[i].line : i \in {k \in 1..Len(stderr) : stderr[k].line.kind \in {"import", "parse"}}}

\* C12: the violation set and the exit status of a finished run are
\* determined by the file tree, the paths and the configuration: they equal
\* the union of what each file yields when scanned by itself, whatever the
\* order in which the files were discovered and scanned.
C12_OrderIndependent ==
    Terminated =>
        /\ PrintedViolations = ExpectedViolations
        /\ exit_code = ExpectedExit

\* two files scanned in the reverse of their sorted order, both with findings
C12_Witness ==
    /\ pc = "done"
    /\ python_files = << <<pkg, sub, b_py>>, <<pkg, a_py>> >>
    /\ \E i, j \in 1..Len(violations) :
          /\ violations[i].path = <<pkg, sub, b_py>>
          /\ violations[j].path = <<pkg, a_py>>
          /\ violations[i].module = violations[j].module

\* the index has been built in a run whose stdlib directory is not there
UnlocatedIndexBuilt == ~stdlibLocated /\ pc \in {"scan", "done"} /\ python_files # <<>>

\* C13 as claimed: when the stdlib directory cannot be located the run goes
\* on with an empty index, so every import that is not allow-listed is
\* reported.
C13_EmptyIndexWhenUnlocated ==
    UnlocatedIndexBuilt =>
        /\ stdlib_modules = {}
        /\ \A i \in 1..idx : \A j \in 1..Len(yielded[i]) :
              ~is_allowed(config, yielded[i][j][1], python_files[i]) =>
                  \E k \in ReportsAt(i, yielded[i][j][2]) :
                      violations[k].module = yielded[i][j][1]

\* C13: when the stdlib directory cannot be located building the index does
\* not end the run; the index then holds the built-in module names and
\* nothing else, so an import is reported exactly when it is neither a
\* built-in module nor allow-listed.
C13_BuiltinsOnlyWhenUnlocated ==
    /\ (~stdlibLocated /\ pc = "scan" /\ idx = 0) => exit_code = -1
    /\ UnlocatedIndexBuilt =>
        /\ stdlib_modules = BuiltinModuleNames
        /\ \A i \in 1..idx : \A j \in 1..Len(yielded[i]) :
              (/\ yielded[i][j][1] \notin BuiltinModuleNames
               /\ ~is_allowed(config, yielded[i][j][1], python_files[i]))
              <=> \E k \in ReportsAt(i, yielded[i][j][2]) :
                      violations[k].module = yielded[i][j][1]

\* without the stdlib directory `import sys` passes and `import os` is
\* reported
C13_Witness ==
    /\ ~stdlibLocated
    /\ pc = "done"
    /\ \E i \in 1..idx : \E j, h \in 1..Len(yielded[i]) :
          /\ yielded[i][j][1] = sys_
          /\ yielded[i][h][1] = os
          /\ \E k \in 1..Len(violations) :
                violations[k].module = os /\ violations[k].path = python_files[i]
          /\ ~\E k \in 1..Len(violations) : violations[k].module = sys_

\* the regular files and the directories of the tree
RegularFiles == PyFileSet \cup PlainFileSet \cup (fsOptional \cap OptionalFileSet)

Directories == DirSet \cup (fsOptional \cap OptionalDirSet)

\* what one path is to contribute: itself when it is a .py file; for a
\* directory the .py files beneath it, spelled from the path, that have no
\* component beginning with "."; nothing otherwise
SourceFilesAt(raw_path) ==
    LET path == Normalize(raw_path)
        here == Resolve(path)
    IN  IF here \in RegularFiles /\ Suffix(path) = dot_py THEN {path}
        ELSE IF here \in Directories
        THEN {c \in {path \o SubSeq(f, Len(here) + 1, Len(f)) :
                        f \in {g \in RegularFiles : here \in Parents(g)}} :
                 /\ Suffix(c) = dot_py
                 /\ \A k \in 1..Len(c) : c[k][1] # "."}
        ELSE {}

RECURSIVE SourceFileLists(_)
SourceFileLists(paths) ==
    IF paths = <<>> THEN {<<>>}
    ELSE {h \o t : h \in Orderings(SourceFilesAt(paths[1])), t \in SourceFileLists(Tail(paths))}

Discovered == pc \in {"build_index", "scan", "done", "crashed"}

\* C14 as claimed: the discovered list is, path by path, the path itself
\* when it is a .py file, the .py files beneath it outside hidden components
\* when it is a directory, and nothing otherwise; every element ends in .py
\* and is a file.
C14_DiscoversSourceFiles ==
    Discovered =>
        /\ python_files \in SourceFileLists(argPaths)
        /\ \A i \in 1..Len(python_files) :
              /\ Suffix(python_files[i]) = dot_py
              /\ Resolve(python_files[i]) \in RegularFiles

\* the entries of the violation output of a finished scan
ViolationOutput == SelectSeq(stderr, LAMBDA l : l.prefix = "" /\ l.line.kind # "info")

\* the two shapes as the specification words them
ColonShape ==
    <<"{file_path}", ":", "{lineno}", ": imports non-stdlib module '", "{module_name}",
      "' at top level">>

ParseShape == <<"{file_path}", ": failed to parse (", "{exc}", ")">>

\* the import shape as printed: no colon after the line number
SpaceShape ==
    <<"{file_path}", ":", "{lineno}", " imports non-stdlib module '", "{module_name}",
      "' at top level">>

NestedOf(i) ==
    UNION {Statements(TreeOf(i).body[k].body, TreeOf(i).body[k].kind \in ScopeKinds) :
              k \in 1..Len(TreeOf(i).body)}

\* the name an absolute import statement is known by: its first alias, or the
\* module it imports from
NameOf(n) == IF n.kind = "Import" THEN n.names[1] ELSE n.module

\* C16: an absolute import inside if, try, except, for, while or with blocks
\* of the module, at any nesting and outside every definition, is yielded
\* with its own line and its canonical name, and is reported exactly when
\* that name is neither in the stdlib index nor allow-listed for the file.
C16_BlockImportsCaught ==
    \A i \in 1..idx : Parsed(i) =>
        \A n \in NestedOf(i) :
            (~n.scoped /\ n.kind \in {"Import", "ImportFrom"} /\ n.level = 0) =>
                LET m == canonicalize_module_name(NameOf(n))
                IN  /\ \E j \in 1..Len(yielded[i]) : yielded[i][j] = <<m, n.lineno>>
                    /\ (\E k \in ReportsAt(i, n.lineno) : violations[k].module = m)
                         <=> (m \notin stdlib_modules /\ ~is_allowed(config, m, python_files[i]))

\* `from kfp.dsl import ...` in the except clause of a try statement,
\* reported as kfp on its own line
C16_Witness ==
    /\ pc = "done"
    /\ config = EmptyConfig
    /\ content[FileA] = Text(<<Wrap(<<"Try", "ExceptHandler">>, ImportFrom(0, kfp_dsl))>>)
    /\ yielded = << << <<kfp, 3>> >> >>
    /\ violations = <<Violation(<<pkg, a_py>>, 3, kfp)>>

\* the positions of the entries that are the file or a directory above it
MatchingEntries(file) ==
    {k \in 1..Len(config.file_allowlist) : IsPrefix(config.file_allowlist[k].path, file)}

\* the least position of a non-empty set of positions
First(S) == CHOOSE k \in S : \A j \in S : k <= j

\* the answer the rule gives: in the global set, or in the set of the first
\* matching entry
AllowedByRule(m, file) ==
    \/ m \in config.module_allowlist
    \/ /\ MatchingEntries(file) # {}
       /\ m \in config.file_allowlist[First(MatchingEntries(file))].modules

\* C17: is_allowed is true for a module of the global set whatever the
\* entries say; otherwise the first entry, in configuration order, that is
\* the file or a directory above it decides alone by membership in its set;
\* it is false when no entry matches.  A yielded import outside the stdlib
\* index is reported exactly when the rule does not allow it.
C17_FirstMatchDecides ==
    config.ok =>
        /\ \A f \in PyFileSet, m \in ModNames :
              is_allowed(config, m, f) <=> AllowedByRule(canonicalize_module_name(m), f)
        /\ \A i \in 1..idx : \A j \in 1..Len(yielded[i]) :
              yielded[i][j][1] \notin stdlib_modules =>
                  ((\E k \in ReportsAt(i, yielded[i][j][2]) :
                        violations[k].module = yielded[i][j][1])
                   <=> ~AllowedByRule(yielded[i][j][1], Resolve(python_files[i])))

\* pkg allows heavy_lib and, after it, pkg/sub allows kfp: the import of
\* kfp.dsl by pkg/sub/b.py is decided by the entry for pkg and reported
C17_Witness ==
    /\ pc = "done"
    /\ config.module_allowlist = {}
    /\ config.file_allowlist = <<[path |-> Cwd \o <<pkg>>, modules |-> {heavy_lib}],
                                 [path |-> Cwd \o <<pkg, sub>>, modules |-> {kfp}]>>
    /\ content[FileB] = Text(<<Import(<<kfp_dsl>>)>>)
    /\ \E k \in 1..Len(violations) :
          violations[k] = Violation(<<pkg, sub, b_py>>, 1, kfp)

\* the pipelines of the run: module position and pipeline position
Pipelines ==
    UNION {{Entry(m, p) : p \in 1..Len(example_files[m].pipelines)} :
              m \in 1..Len(example_files)}

OutcomeOf(e) == example_files[e.module].pipelines[e.pipeline]

Occurrences(list, e) == Cardinality({k \in 1..Len(list) : list[k] = e})

EveryModuleLoads == \A m \in 1..Len(example_files) : example_files[m].loads

\* the pipelines the loop has gone past
Passed(e) ==
    \/ ex_pc \in {"report", "done"}
    \/ ex_pc \in {"load", "compile"} /\ e.module < module_index
    \/ ex_pc = "compile" /\ e.module = module_index /\ e.pipeline <= pipeline_index

\* C18: when every module loads, the run is never cut short; each pipeline
\* the loop has gone past is once in failures and not in compiled when its
\* compilation raised, once in compiled and not in failures when it did not,
\* and at the return every pipeline has been gone past; main returns 1 when
\* some compilation raised and 0 otherwise, also when there is no module.
C18_FailuresDoNotStopTheRun ==
    (EveryModuleLoads /\ ex_pc # "idle") =>
        /\ ex_pc # "crashed"
        /\ ex_pc # "start" =>
              \A e \in Pipelines :
                  /\ Occurrences(failures, e) =
                        (IF Passed(e) /\ OutcomeOf(e) = "raises" THEN 1 ELSE 0)
                  /\ Occurrences(compiled, e) =
                        (IF Passed(e) /\ OutcomeOf(e) = "ok" THEN 1 ELSE 0)
        /\ ex_pc = "done" =>
              ex_exit = (IF \E e \in Pipelines : OutcomeOf(e) = "raises" THEN 1 ELSE 0)
        /\ ex_pc # "done" => ex_exit = -1

\* the first pipeline of the first module fails, the pipelines after it in
\* the module and in the next module are compiled, and main returns 1
C18_Witness ==
    /\ ex_pc = "done"
    /\ Len(example_files) = 2
    /\ example_files[1].pipelines = <<"raises", "ok">>
    /\ example_files[2].pipelines = <<"ok">>
    /\ failures = <<Entry(1, 1)>>
    /\ compiled = <<Entry(1, 2), Entry(2, 1)>>
    /\ ex_exit = 1

====
